---------------------------- MODULE Spec2Model ----------------------------
(***************************************************************************)
(* Soft Dice loss with cross-device synchronisation                        *)
(* (InnerEye/ML/models/losses/soft_dice.py) and the training entry script  *)
(* (InnerEye-Generative/mains/synth_UNet2D_main.py).                       *)
(*                                                                         *)
(* Numbers are exact rationals <<n, d>> with d > 0 in lowest terms; a      *)
(* division by zero yields <<s, 0>> (inf for s # 0, nan for s = 0), as the *)
(* float division of torch does, instead of raising.                       *)
(***************************************************************************)
EXTENDS Integers, Sequences, FiniteSets, TLC

(* ------------------------------ bounds -------------------------------- *)

\* Largest number of ranks in the process group (world size).
MaxDevices == 2

(* ----------------------------- rationals ------------------------------ *)

Abs(x) == IF x < 0 THEN -x ELSE x

Sgn(x) == IF x < 0 THEN -1 ELSE IF x = 0 THEN 0 ELSE 1

RECURSIVE Gcd(_, _)
Gcd(a, b) == IF b = 0 THEN a ELSE Gcd(b, a % b)

Norm(n, d) ==
    IF d = 0 THEN <<Sgn(n), 0>>
    ELSE LET g == Gcd(Abs(n), Abs(d))
         IN  <<Sgn(d) * (n \div g), Abs(d) \div g>>

Q(n) == <<n, 1>>

RAdd(a, b) == Norm(a[1] * b[2] + b[1] * a[2], a[2] * b[2])

RSub(a, b) == Norm(a[1] * b[2] - b[1] * a[2], a[2] * b[2])

RMul(a, b) == Norm(a[1] * b[1], a[2] * b[2])

RDiv(a, b) == Norm(a[1] * b[2], a[2] * b[1])

RIsFinite(a) == a[2] # 0

RLt(a, b) == RIsFinite(a) /\ RIsFinite(b) /\ a[1] * b[2] < b[1] * a[2]

RLe(a, b) == RIsFinite(a) /\ RIsFinite(b) /\ a[1] * b[2] <= b[1] * a[2]

\* The sum of the first n entries of s, and of all of them.
RECURSIVE RSumTo(_, _)
RSumTo(s, n) == IF n = 0 THEN Q(0) ELSE RAdd(RSumTo(s, n - 1), s[n])

RSum(s) == RSumTo(s, Len(s))

RECURSIVE RPow(_, _)
RPow(a, k) == IF k = 0 THEN Q(1) ELSE RMul(a, RPow(a, k - 1))


(* ------------------------------ tensors ------------------------------- *)
(* A tensor is [isTensor, shape, data]; data is nested sequences, one     *)
(* level per dimension, with rationals at the leaves.  None is the value  *)
(* of a local that is not assigned yet, and of an argument that is not a  *)
(* tensor.                                                                *)

None == [isTensor |-> FALSE, shape |-> <<>>, data |-> <<>>]

Tensor(shape, data) == [isTensor |-> TRUE, shape |-> shape, data |-> data]

\* Batch x Classes x Spatial: one voxel, two classes.
ShapeOK == <<1, 2, 1>>

\* Two voxels.
ShapeOther == <<1, 2, 2>>

\* Fewer than 3 dimensions.
Shape2D == <<1, 2>>

TensorsOf(shape, vals) ==
    IF Len(shape) = 3
    THEN {Tensor(shape, x) :
            x \in [1..shape[1] -> [1..shape[2] -> [1..shape[3] -> vals]]]}
    ELSE {Tensor(shape, x) : x \in [1..shape[1] -> [1..shape[2] -> vals]]}

Zeros(shape) == CHOOSE t \in TensorsOf(shape, {Q(0)}) : TRUE

\* A batch of one element from the integer values of its classes' voxels.
Sample(rows) ==
    Tensor(<<1, Len(rows), Len(rows[1])>>,
           << [c \in 1..Len(rows) |-> [s \in 1..Len(rows[c]) |-> Q(rows[c][s])]] >>)

\* The network outputs and the targets a rank may be called with.
Outputs ==
    { Sample(<< <<0>>, <<0>> >>), Sample(<< <<1>>, <<0>> >>),
      Sample(<< <<-1>>, <<1>> >>), Sample(<< <<1, 1>>, <<0, 0>> >>) }

Targets ==
    { Sample(<< <<0>>, <<0>> >>), Sample(<< <<1>>, <<0>> >>),
      Sample(<< <<0>>, <<1>> >>), Sample(<< <<1, 1>>, <<0, 0>> >>) }

\* The values of a softmax result.
ProbVals == {Q(0), Norm(1, 2), Q(1)}

\* output * target, elementwise, for two tensors of one 3-dimensional shape.
Mul(a, b) ==
    Tensor(a.shape,
           [i \in 1..a.shape[1] |-> [c \in 1..a.shape[2] |-> [s \in 1..a.shape[3] |->
               RMul(a.data[i][c][s], b.data[i][c][s])]]])

\* torch.sum(t, dim=[0, 2, ...]): one entry per class.
SumAcross(t) ==
    Tensor(<<t.shape[2]>>,
           [c \in 1..t.shape[2] |->
               RSum([i \in 1..t.shape[1] |-> RSum(t.data[i][c])])])

\* t.unsqueeze(0)
Unsqueeze0(t) == Tensor(<<1>> \o t.shape, <<t.data>>)

\* torch.cat(ts, 0) of a sequence of tensors that agree on the other dims.
RECURSIVE CatData(_)
CatData(ts) == IF ts = <<>> THEN <<>> ELSE Head(ts).data \o CatData(Tail(ts))

Cat0(ts) ==
    Tensor(<<Len(CatData(ts))>> \o Tail(ts[1].shape), CatData(ts))

\* torch.sum(t, dim=0) of a 2-dimensional tensor: a 1-dimensional one.
SumDim0(t) ==
    Tensor(Tail(t.shape),
           [c \in 1..t.shape[2] |-> RSum([r \in 1..t.shape[1] |-> t.data[r][c]])])

\* t / k for a 1-dimensional t and a number k.
DivScalar(t, k) ==
    Tensor(t.shape, [c \in 1..t.shape[1] |-> RDiv(t.data[c], Q(k))])

\* The leaves of a 1- or 2-dimensional tensor, in order.
RECURSIVE Concat(_)
Concat(rows) == IF rows = <<>> THEN <<>> ELSE Head(rows) \o Concat(Tail(rows))

Flatten(t) == IF Len(t.shape) = 2 THEN Concat(t.data) ELSE t.data

\* torch.einsum("ij,j->ij", a, w) accepts a 2-dimensional a and a
\* 1-dimensional w whose length is a's second dimension.
EinsumAccepts(a, w) ==
    Len(a.shape) = 2 /\ Len(w.shape) = 1 /\ a.shape[2] = w.shape[1]

Einsum(a, w) ==
    Tensor(a.shape,
           [i \in 1..a.shape[1] |-> [j \in 1..a.shape[2] |->
               RMul(a.data[i][j], w.data[j])]])


(* ------------------------------- state -------------------------------- *)

VARIABLES
    world,              \* number of ranks that call forward_minibatch
    distributed,        \* torch.distributed.is_available() and is_initialized()
    eps,                \* SoftDiceLoss.eps
    apply_softmax,      \* SoftDiceLoss.apply_softmax
    class_weight_power, \* SoftDiceLoss.class_weight_power: <<>> is None, <<p>> is p
    pc,                 \* rank -> position of its call of forward_minibatch
    local,              \* rank -> the locals of its call
    buffers,            \* k -> rank -> tensor the rank gave to its k-th all_gather
    syncCalls,          \* rank -> number of SyncFunction.apply calls it has made
    mpc,                \* position of the training entry script
    args,               \* the script's parsed arguments
    run_info_bound,     \* the script's name run_info is bound
    fits                \* the trainer.fit calls made so far: fast_dev_run of each

lossVars == <<world, distributed, eps, apply_softmax, class_weight_power,
              pc, local, buffers, syncCalls>>

mainVars == <<mpc, args, run_info_bound, fits>>

vars == <<lossVars, mainVars>>

Ranks == 1..world

\* The collectives of one call, in call order (at most four).
Calls == {1, 2, 3, 4}

EpsValues == {Q(0), Norm(1, 10)}

PowerValues == {<<>>, <<0>>, <<1>>}

NoLocals ==
    [output |-> None, target |-> None,
     intersection0 |-> None, intersection |-> None,
     class_weights0 |-> None, class_weights |-> None,
     output_sum_square0 |-> None, output_sum_square |-> None,
     target_sum_square0 |-> None, target_sum_square |-> None,
     unsynced |-> None, synced |-> None]

\* The script is not running.
MainIdle ==
    /\ mpc = "idle"
    /\ args = [debug |-> FALSE, azureml |-> FALSE, gpu |-> <<>>, gpus |-> <<>>]
    /\ run_info_bound = FALSE
    /\ fits = <<>>

\* No loss is being computed.
LossIdle ==
    /\ world = 1
    /\ distributed = FALSE
    /\ eps = Q(0)
    /\ apply_softmax = FALSE
    /\ class_weight_power = <<>>
    /\ pc = [d \in {1} |-> "idle"]
    /\ local = [d \in {1} |-> NoLocals]
    /\ buffers = [k \in Calls |-> [d \in {1} |-> None]]
    /\ syncCalls = [d \in {1} |-> 0]

\* __init__ (lines 28-43) on every rank, in a process group of `world` ranks
\* or, without torch.distributed, in a single process.
Init ==
    /\ world \in 1..MaxDevices
    /\ distributed \in BOOLEAN
    /\ (world > 1 => distributed)
    /\ eps \in EpsValues
    /\ apply_softmax \in BOOLEAN
    /\ class_weight_power \in PowerValues
    /\ pc = [d \in Ranks |-> "idle"]
    /\ local = [d \in Ranks |-> NoLocals]
    /\ buffers = [k \in Calls |-> [d \in Ranks |-> None]]
    /\ syncCalls = [d \in Ranks |-> 0]
    /\ MainIdle

(* ------------------------- forward_minibatch -------------------------- *)

\* The argument pairs a rank may be called with.
ValidPairs == {p \in Outputs \X Targets : p[1].shape = p[2].shape}

InvalidPairs ==
    { <<None, Zeros(Shape2D)>>, <<Zeros(ShapeOK), None>>,
      <<Zeros(Shape2D), Zeros(Shape2D)>>, <<Zeros(Shape2D), Zeros(ShapeOK)>>,
      <<Zeros(ShapeOK), Zeros(ShapeOther)>> }

Pairs == ValidPairs \cup InvalidPairs

\* Check with the shapes compared before the dimensions are counted.
CheckShapeFirst(output, target) ==
    IF ~output.isTensor \/ ~target.isTensor THEN "TypeError"
    ELSE IF output.shape # target.shape THEN "ValueError_shape"
    ELSE IF Len(output.shape) < 3 THEN "ValueError_dims"
    ELSE "ok"

\* Lines 56-68: the exception the checks raise, or "ok".
Check(output, target) ==
    IF ~output.isTensor \/ ~target.isTensor THEN "TypeError"
    ELSE IF Len(output.shape) < 3 THEN "ValueError_dims"
    ELSE IF output.shape # target.shape THEN "ValueError_shape"
    ELSE "ok"

\* The probability vectors over two classes on the grid ProbVals.
Distributions == {p \in [1..ShapeOK[2] -> ProbVals] : RAdd(p[1], p[2]) = Q(1)}

\* torch.nn.functional.softmax(output, dim=1): for every batch element and
\* voxel, non-negative numbers over the classes that sum to 1 and are
\* ordered as the inputs are, equal inputs giving equal results.  The
\* exponentials are not rational, so the result is any such tensor on the
\* grid ProbVals (1 and 0 are what the floats give for a large difference).
Softmax(output) ==
    LET B == output.shape[1]
        C == output.shape[2]
        S == output.shape[3]
        ordered(p, i, s) ==
            \A c1, c2 \in 1..C :
                /\ RLt(output.data[i][c1][s], output.data[i][c2][s])
                       => RLt(p[c1], p[c2])
                /\ output.data[i][c1][s] = output.data[i][c2][s] => p[c1] = p[c2]
    IN  {Tensor(output.shape, [i \in 1..B |-> [c \in 1..C |-> [s \in 1..S |-> f[i][s][c]]]]) :
            f \in {g \in [1..B -> [1..S -> Distributions]] :
                      \A i \in 1..B, s \in 1..S : ordered(g[i][s], i, s)}}

WeightingOn == class_weight_power # <<>> /\ class_weight_power # <<0>>

\* Post without the test of torch.distributed.
PostUnguarded(d, k, tensor) ==
    /\ buffers' = [buffers EXCEPT ![k][d] = tensor]
    /\ syncCalls' = [syncCalls EXCEPT ![d] = @ + 1]

\* SyncFunction.apply, first half: the rank hands its tensor to its k-th
\* all_gather.  Without torch.distributed nothing is handed over (line 18).
Post(d, k, tensor) ==
    IF distributed
    THEN /\ buffers' = [buffers EXCEPT ![k][d] = tensor]
         /\ syncCalls' = [syncCalls EXCEPT ![d] = @ + 1]
    ELSE UNCHANGED <<buffers, syncCalls>>

\* Every rank makes its k-th call; tensors[d] is what rank d hands over.
PostAll(k, tensors) ==
    IF distributed
    THEN /\ buffers' = [buffers EXCEPT ![k] = tensors]
         /\ syncCalls' = [d \in Ranks |-> syncCalls[d] + 1]
    ELSE UNCHANGED <<buffers, syncCalls>>

\* SynchronizeAcrossGpus that hands back the rank's own tensor.
SynchronizeLocalOnly(tensor, k) == tensor

\* synchronize_across_gpus (lines 14-18), second half: the tensors of all
\* ranks concatenated along dimension 0, or the tensor itself.
SynchronizeAcrossGpus(tensor, k) ==
    IF distributed THEN Cat0([e \in Ranks |-> buffers[k][e]]) ELSE tensor

\* get_class_weights(target, power) of InnerEye.ML.utils.image_util: 1 / C
\* raised to the power, C the number of voxels of each class (an empty class
\* counts as 1), scaled to a mean of 1.  Integer powers only.
GetClassWeights(target, power) ==
    LET counts == SumAcross(target)
        n      == counts.shape[1]
        raw    == [c \in 1..n |->
                      RPow(RDiv(Q(1), IF counts.data[c] = Q(0) THEN Q(1)
                                      ELSE counts.data[c]), power)]
    IN  Tensor(<<n>>, [c \in 1..n |-> RDiv(RMul(raw[c], Q(n)), RSum(raw))])

\* Denominators without eps.
DenominatorsNoEps(output_sum_square, target_sum_square, e) ==
    LET o == Flatten(output_sum_square)
        t == Flatten(target_sum_square)
    IN  [i \in 1..Len(o) |-> RAdd(o[i], t[i])]

\* The denominators of lines 95 and 96, one per entry.
Denominators(output_sum_square, target_sum_square, e) ==
    LET o == Flatten(output_sum_square)
        t == Flatten(target_sum_square)
    IN  [i \in 1..Len(o) |-> RAdd(RAdd(o[i], t[i]), e)]

\* Ratios with eps in the denominator only.
RatiosEpsBelowOnly(intersection, output_sum_square, target_sum_square, e) ==
    LET n == Flatten(intersection)
        m == Denominators(output_sum_square, target_sum_square, e)
    IN  [i \in 1..Len(n) |-> RDiv(n[i], m[i])]

\* (intersection + eps) / (output_sum_square + target_sum_square + eps)
Ratios(intersection, output_sum_square, target_sum_square, e) ==
    LET n == Flatten(intersection)
        m == Denominators(output_sum_square, target_sum_square, e)
    IN  [i \in 1..Len(n) |-> RDiv(RAdd(n[i], e), m[i])]

\* torch.mean of a sequence of numbers.
Mean(xs) == RDiv(RSum(xs), Q(Len(xs)))

\* Lines 95-96: 1.0 - 2.0 * torch.mean(...), a 0-dimensional tensor.
DiceLoss(intersection, output_sum_square, target_sum_square, e) ==
    Tensor(<<>>,
           RSub(Q(1), RMul(Q(2), Mean(Ratios(intersection, output_sum_square,
                                             target_sum_square, e)))))

\* Lines 56-77 up to the all_gather of intersection0: the checks, the
\* softmax, the local intersection.
Enter(d) ==
    /\ pc[d] = "idle"
    /\ \E pair \in Pairs :
         LET output == pair[1]
             target == pair[2]
             chk    == Check(output, target)
         IN  IF chk # "ok"
             THEN /\ pc' = [pc EXCEPT ![d] = chk]
                  /\ local' = [local EXCEPT ![d].output = output,
                                            ![d].target = target]
                  /\ UNCHANGED <<buffers, syncCalls>>
             ELSE \E out \in (IF apply_softmax THEN Softmax(output) ELSE {output}) :
                    LET intersection0 == Unsqueeze0(SumAcross(Mul(out, target)))
                    IN  /\ local' = [local EXCEPT ![d].output = out,
                                                  ![d].target = target,
                                                  ![d].intersection0 = intersection0]
                        /\ Post(d, 1, intersection0)
                        /\ pc' = [pc EXCEPT ![d] = "sync_intersection"]
    /\ UNCHANGED <<world, distributed, eps, apply_softmax, class_weight_power>>
    /\ UNCHANGED mainVars

(* An all_gather returns on no rank before every rank of the group has     *)
(* called it, and what a rank does between two collectives reads and       *)
(* writes its own locals only.  One action below is therefore one          *)
(* collective returning on every rank, each rank running on to its next    *)
(* collective call, its return or its exception.                           *)

\* The place of a collective among the collectives of the call.
CallOfOutput == IF WeightingOn THEN 3 ELSE 2

CallOfTarget == IF WeightingOn THEN 4 ELSE 3

\* Line 89
OutputSumSquare0(d) == Unsqueeze0(SumAcross(Mul(local[d].output, local[d].output)))

\* Lines 77-89 on rank d
AfterIntersection(d) ==
    LET intersection == SumDim0(SynchronizeAcrossGpus(local[d].intersection0, 1))
    IN  IF WeightingOn
        THEN [local[d] EXCEPT
                !.intersection = intersection,
                !.class_weights0 =
                    Unsqueeze0(GetClassWeights(local[d].target, class_weight_power[1]))]
        ELSE [local[d] EXCEPT
                !.intersection = intersection,
                !.output_sum_square0 = OutputSumSquare0(d)]

SyncIntersection ==
    /\ \A d \in Ranks : pc[d] = "sync_intersection"
    /\ local' = [d \in Ranks |-> AfterIntersection(d)]
    /\ IF WeightingOn
       THEN /\ PostAll(2, [d \in Ranks |-> local'[d].class_weights0])
            /\ pc' = [d \in Ranks |-> "sync_class_weights"]
       ELSE /\ PostAll(2, [d \in Ranks |-> local'[d].output_sum_square0])
            /\ pc' = [d \in Ranks |-> "sync_output_sum_square"]
    /\ UNCHANGED <<world, distributed, eps, apply_softmax, class_weight_power>>
    /\ UNCHANGED mainVars

\* Lines 83-84 on rank d: the class weights averaged over the ranks.
ClassWeights(d) ==
    LET gathered == SynchronizeAcrossGpus(local[d].class_weights0, 2)
    IN  DivScalar(SumDim0(gathered), gathered.shape[1])

\* Lines 83-89 on rank d.  The einsum raises RuntimeError when its operands
\* do not have the dimensions its equation names, before intersection is
\* assigned.
AfterClassWeights(d) ==
    IF EinsumAccepts(local[d].intersection, ClassWeights(d))
    THEN [local[d] EXCEPT
            !.class_weights = ClassWeights(d),
            !.intersection = Einsum(local[d].intersection, ClassWeights(d)),
            !.output_sum_square0 = OutputSumSquare0(d)]
    ELSE [local[d] EXCEPT !.class_weights = ClassWeights(d)]

SyncClassWeights ==
    /\ \A d \in Ranks : pc[d] = "sync_class_weights"
    /\ local' = [d \in Ranks |-> AfterClassWeights(d)]
    /\ IF \A d \in Ranks : EinsumAccepts(local[d].intersection, ClassWeights(d))
       THEN /\ PostAll(3, [d \in Ranks |-> local'[d].output_sum_square0])
            /\ pc' = [d \in Ranks |-> "sync_output_sum_square"]
       ELSE /\ pc' = [d \in Ranks |->
                        IF EinsumAccepts(local[d].intersection, ClassWeights(d))
                        THEN "sync_output_sum_square" ELSE "RuntimeError"]
            /\ UNCHANGED <<buffers, syncCalls>>
    /\ UNCHANGED <<world, distributed, eps, apply_softmax, class_weight_power>>
    /\ UNCHANGED mainVars

\* Lines 90-91 on rank d
AfterOutputSumSquare(d) ==
    [local[d] EXCEPT
        !.output_sum_square =
            SumDim0(SynchronizeAcrossGpus(local[d].output_sum_square0, CallOfOutput)),
        !.target_sum_square0 =
            Unsqueeze0(SumAcross(Mul(local[d].target, local[d].target)))]

SyncOutputSumSquare ==
    /\ \A d \in Ranks : pc[d] = "sync_output_sum_square"
    /\ local' = [d \in Ranks |-> AfterOutputSumSquare(d)]
    /\ PostAll(CallOfTarget, [d \in Ranks |-> local'[d].target_sum_square0])
    /\ pc' = [d \in Ranks |-> "sync_target_sum_square"]
    /\ UNCHANGED <<world, distributed, eps, apply_softmax, class_weight_power>>
    /\ UNCHANGED mainVars

\* AfterTargetSumSquare synchronising output_sum_square0 a second time.
AfterTargetSumSquareOfOutput(d) ==
    LET target_sum_square ==
            SumDim0(SynchronizeAcrossGpus(local[d].output_sum_square0, CallOfOutput))
    IN  [local[d] EXCEPT
            !.target_sum_square = target_sum_square,
            !.unsynced = DiceLoss(local[d].intersection0, local[d].output_sum_square0,
                                  local[d].target_sum_square0, eps),
            !.synced = DiceLoss(local[d].intersection, local[d].output_sum_square,
                                target_sum_square, eps)]

\* Lines 92-97 on rank d: the two loss values; synced is returned.
AfterTargetSumSquare(d) ==
    LET target_sum_square ==
            SumDim0(SynchronizeAcrossGpus(local[d].target_sum_square0, CallOfTarget))
    IN  [local[d] EXCEPT
            !.target_sum_square = target_sum_square,
            !.unsynced = DiceLoss(local[d].intersection0, local[d].output_sum_square0,
                                  local[d].target_sum_square0, eps),
            !.synced = DiceLoss(local[d].intersection, local[d].output_sum_square,
                                target_sum_square, eps)]

SyncTargetSumSquare ==
    /\ \A d \in Ranks : pc[d] = "sync_target_sum_square"
    /\ local' = [d \in Ranks |-> AfterTargetSumSquare(d)]
    /\ pc' = [d \in Ranks |-> "done"]
    /\ UNCHANGED <<world, distributed, eps, apply_softmax, class_weight_power,
                   buffers, syncCalls>>
    /\ UNCHANGED mainVars

Next ==
    \/ \E d \in Ranks : Enter(d)
    \/ SyncIntersection
    \/ SyncClassWeights
    \/ SyncOutputSumSquare
    \/ SyncTargetSumSquare

Spec == Init /\ [][Next]_vars


(* ----------------------- synth_UNet2D_main.py ------------------------- *)
(* The script runs top to bottom.  A call into a library either returns or *)
(* ends the script: submit_to_azure_if_needed returns the run's run_info   *)
(* inside AzureML and otherwise submits the run and exits, and trainer.fit *)
(* may raise.                                                              *)

\* args.gpu and args.gpus: <<>> is None, <<n>> is n.
GpuValues == {<<>>, <<0>>, <<1>>}

GpusValues == {<<>>, <<2>>}

InitMain ==
    /\ LossIdle
    /\ mpc = "start"
    /\ args = [debug |-> FALSE, azureml |-> FALSE, gpu |-> <<>>, gpus |-> <<>>]
    /\ run_info_bound = FALSE
    /\ fits = <<>>

\* Lines 35-47: parser.parse_args()
ParseArgs ==
    /\ mpc = "start"
    /\ \E debug \in BOOLEAN, azureml \in BOOLEAN, gpu \in GpuValues, gpus \in GpusValues :
           args' = [debug |-> debug, azureml |-> azureml, gpu |-> gpu, gpus |-> gpus]
    /\ mpc' = "parsed"
    /\ UNCHANGED <<run_info_bound, fits>>
    /\ UNCHANGED lossVars

\* Lines 51-60: run_info is assigned under --azureml only.
Submit ==
    /\ mpc = "parsed"
    /\ IF args.azureml
       THEN \/ /\ run_info_bound' = TRUE
               /\ mpc' = "submitted"
            \/ /\ mpc' = "SystemExit"
               /\ UNCHANGED run_info_bound
       ELSE /\ mpc' = "submitted"
            /\ UNCHANGED run_info_bound
    /\ UNCHANGED <<args, fits>>
    /\ UNCHANGED lossVars

\* Lines 62-68: a single GPU when --gpu is given; the model.
SelectGpu ==
    /\ mpc = "submitted"
    /\ args' = IF args.gpu # <<>> THEN [args EXCEPT !.gpus = <<1>>] ELSE args
    /\ mpc' = "model"
    /\ UNCHANGED <<run_info_bound, fits>>
    /\ UNCHANGED lossVars

\* Lines 71-85: the datasets read run_info, a NameError when it is unbound;
\* then the loaders, the logger and the checkpoint callback.
Loaders ==
    /\ mpc = "model"
    /\ mpc' = IF run_info_bound THEN "loaded" ELSE "NameError"
    /\ UNCHANGED <<args, run_info_bound, fits>>
    /\ UNCHANGED lossVars

\* DebugRequested that never asks for the fast_dev_run fit.
DebugIgnored(a) == FALSE

\* Line 87
DebugRequested(a) == a.debug

\* Lines 87-89: the fast_dev_run fit, under --debug only.
DebugFit ==
    /\ mpc = "loaded"
    /\ IF DebugRequested(args)
       THEN \/ /\ fits' = Append(fits, TRUE)
               /\ mpc' = "debugged"
            \/ /\ mpc' = "Exception"
               /\ UNCHANGED fits
       ELSE /\ mpc' = "debugged"
            /\ UNCHANGED fits
    /\ UNCHANGED <<args, run_info_bound>>
    /\ UNCHANGED lossVars

\* Lines 91-95: the full fit, then the end of the script.
FullFit ==
    /\ mpc = "debugged"
    /\ \/ /\ fits' = Append(fits, FALSE)
          /\ mpc' = "end"
       \/ /\ mpc' = "Exception"
          /\ UNCHANGED fits
    /\ UNCHANGED <<args, run_info_bound>>
    /\ UNCHANGED lossVars

NextMain ==
    \/ ParseArgs
    \/ Submit
    \/ SelectGpu
    \/ Loaders
    \/ DebugFit
    \/ FullFit

SpecMain == InitMain /\ [][NextMain]_vars


(* ------------------------------ claims -------------------------------- *)

Errors == {"TypeError", "ValueError_dims", "ValueError_shape"}

Done(d) == pc[d] = "done"

Positive(q) == RLt(Q(0), q)

\* The sum over the batch and the voxels of x * y for class c.
ClassStat(x, y, c) ==
    RSum([i \in 1..x.shape[1] |->
            RSum([s \in 1..x.shape[3] |-> RMul(x.data[i][c][s], y.data[i][c][s])])])

\* The sum of a statistic over the ranks rs (a sequence of ranks).
Over(rs, stat(_)) == RSum([j \in 1..Len(rs) |-> stat(rs[j])])

\* 1 - 2 * mean over the classes c of
\* (sum_d intersection_d[c] + eps) / (sum_d output_sq_d[c] + sum_d target_sq_d[c] + eps),
\* d ranging over the ranks rs, from the tensors the ranks hold.
ExpectedLoss(rs) ==
    LET C == ShapeOK[2]
        I(c) == LET f(d) == ClassStat(local[d].output, local[d].target, c) IN Over(rs, f)
        O(c) == LET f(d) == ClassStat(local[d].output, local[d].output, c) IN Over(rs, f)
        T(c) == LET f(d) == ClassStat(local[d].target, local[d].target, c) IN Over(rs, f)
        ratio(c) == RDiv(RAdd(I(c), eps), RAdd(RAdd(O(c), T(c)), eps))
    IN  RSub(Q(1), RMul(Q(2), RDiv(RSum([c \in 1..C |-> ratio(c)]), Q(C))))

AllRanks == [d \in Ranks |-> d]

\* C1: with class weighting off, the loss every rank returns is the one of
\* the per-class statistics summed over all the ranks of the group, so all
\* ranks return the same value and none returns the loss of its own batch
\* alone.  (nan, the result of 0/0 when eps is 0, is one value here.)
C1_SyncedLossIsGlobal ==
    \A d \in Ranks :
        (Done(d) /\ ~WeightingOn) =>
            /\ local[d].synced.data = ExpectedLoss(AllRanks)
            /\ \A e \in Ranks : Done(e) => local[e].synced = local[d].synced

\* Two ranks have returned a loss that is not the loss of either batch alone.
C1_Witness ==
    /\ world > 1 /\ ~WeightingOn /\ Positive(eps)
    /\ \A d \in Ranks :
          /\ Done(d)
          /\ local[d].synced.data # ExpectedLoss(<<d>>)
          /\ local[d].synced.data = ExpectedLoss(AllRanks)
    /\ local[1].unsynced # local[2].unsynced

\* C2: with eps > 0 every denominator of lines 95 and 96 is strictly positive
\* and both loss values are finite: nothing is divided by zero.
C2_DenominatorPositive ==
    \A d \in Ranks :
        (Done(d) /\ Positive(eps)) =>
            /\ LET m == Denominators(local[d].output_sum_square0,
                                     local[d].target_sum_square0, eps)
               IN  \A i \in 1..Len(m) : Positive(m[i])
            /\ LET m == Denominators(local[d].output_sum_square,
                                     local[d].target_sum_square, eps)
               IN  \A i \in 1..Len(m) : Positive(m[i])
            /\ RIsFinite(local[d].unsynced.data)
            /\ RIsFinite(local[d].synced.data)

\* A rank has returned a loss for an all-zero output and an all-zero target.
C2_Witness ==
    \E d \in Ranks :
        /\ Done(d) /\ Positive(eps)
        /\ local[d].output = Zeros(ShapeOK)
        /\ local[d].target = Zeros(ShapeOK)
        /\ Denominators(local[d].output_sum_square0,
                        local[d].target_sum_square0, eps) = <<eps, eps>>

\* C3: TypeError exactly when an argument is not a tensor; otherwise
\* ValueError exactly when the output has fewer than 3 dimensions; otherwise
\* ValueError exactly when the shapes differ; a rank gets past the checks
\* only when all three pass; and a rank that raised has computed no
\* statistic and started no collective.
C3_ChecksFirst ==
    \A d \in Ranks :
        LET output  == local[d].output
            target  == local[d].target
            tensors == output.isTensor /\ target.isTensor
            dims    == Len(output.shape) >= 3
            same    == output.shape = target.shape
        IN  pc[d] # "idle" =>
              /\ pc[d] = "TypeError" <=> ~tensors
              /\ pc[d] = "ValueError_dims" <=> (tensors /\ ~dims)
              /\ pc[d] = "ValueError_shape" <=> (tensors /\ dims /\ ~same)
              /\ Done(d) => (tensors /\ dims /\ same)
              /\ pc[d] \in Errors =>
                    /\ local[d] = [NoLocals EXCEPT !.output = output, !.target = target]
                    /\ syncCalls[d] = 0
                    /\ \A k \in Calls : buffers[k][d] = None

\* A rank raised for the dimensions of an output whose shape is also not
\* the target's, and another rank raised for the shapes.
C3_Witness ==
    /\ world > 1
    /\ pc[1] = "ValueError_dims"
    /\ local[1].output.shape # local[1].target.shape
    /\ pc[2] = "ValueError_shape"

\* The intersection the weighted path is to produce on rank d: every class's
\* synchronised intersection times the class's weight averaged over the ranks.
WeightedIntersection(d) ==
    LET C == ShapeOK[2]
        I(c) == LET f(e) == ClassStat(local[e].output, local[e].target, c)
                IN  Over(AllRanks, f)
        W(c) == LET f(e) == Flatten(local[e].class_weights0)[c]
                IN  RDiv(Over(AllRanks, f), Q(world))
    IN  [c \in 1..C |-> RMul(I(c), W(c))]

\* C4: with class_weight_power None or 0.0 no class weights are computed or
\* synchronised and the intersection stays unweighted; with any other power
\* a rank gets past the class-weight block with every class's synchronised
\* intersection multiplied by the averaged weight, the sums of squares being
\* left unweighted.
C4_ClassWeighting ==
    \A d \in Ranks :
        /\ (~WeightingOn /\ Done(d)) =>
              /\ local[d].class_weights0 = None
              /\ local[d].class_weights = None
              /\ local[d].synced.data = ExpectedLoss(AllRanks)
        /\ (WeightingOn /\ pc[d] \notin Errors \cup
                {"idle", "sync_intersection", "sync_class_weights"}) =>
              /\ pc[d] # "RuntimeError"
              /\ Flatten(local[d].intersection) = WeightedIntersection(d)

\* The half of C4 the code does keep: without weighting no class weight is
\* computed and no collective is spent on one.
C4_Unweighted ==
    \A d \in Ranks :
        ~WeightingOn =>
            /\ local[d].class_weights0 = None
            /\ local[d].class_weights = None
            /\ buffers[4][d] = None

\* C5 as stated: a call makes at most one collective call.
C5_SingleCollective == \A d \in Ranks : syncCalls[d] <= 1

\* C5, amended: the collectives of a call are the all_gathers it makes through
\* synchronize_across_gpus: none without torch.distributed, and with it one
\* for each synchronised statistic, three in a call with class weighting off
\* that returns a loss (intersection, output_sum_square, target_sum_square).
C5_CollectivesPerCall ==
    \A d \in Ranks :
        /\ syncCalls[d] = Cardinality({k \in Calls : buffers[k][d] # None})
        /\ ~distributed => syncCalls[d] = 0
        /\ (distributed /\ Done(d) /\ ~WeightingOn) =>
              /\ syncCalls[d] = 3
              /\ buffers[1][d] = local[d].intersection0
              /\ buffers[2][d] = local[d].output_sum_square0
              /\ buffers[3][d] = local[d].target_sum_square0

\* Every rank of a group of two has returned after three collectives.
C5_Witness ==
    /\ world > 1 /\ distributed
    /\ \A d \in Ranks : Done(d) /\ syncCalls[d] = 3

\* C6: without torch.distributed synchronize_across_gpus hands back its
\* argument and calls no collective, so with class weighting off the value
\* returned, synced, is unsynced, the loss of the rank's own batch.
C6_UnsyncedWhenNotDistributed ==
    \A d \in Ranks :
        (~distributed /\ Done(d) /\ ~WeightingOn) =>
            /\ local[d].synced = local[d].unsynced
            /\ local[d].unsynced.data = ExpectedLoss(<<d>>)
            /\ local[d].intersection.data = local[d].intersection0.data[1]
            /\ syncCalls[d] = 0
            /\ \A k \in Calls : buffers[k][d] = None

\* A call without torch.distributed has returned a finite loss for an output
\* that differs from the target.
C6_Witness ==
    \E d \in Ranks :
        /\ ~distributed /\ Done(d) /\ ~WeightingOn /\ Positive(eps)
        /\ local[d].output # local[d].target
        /\ local[d].synced = local[d].unsynced

NonNegative(t) ==
    \A i \in 1..t.shape[1], c \in 1..t.shape[2], s \in 1..t.shape[3] :
        RLe(Q(0), t.data[i][c][s])

ZeroClass(t, c) ==
    \A i \in 1..t.shape[1], s \in 1..t.shape[3] : t.data[i][c][s] = Q(0)

\* C8: for non-negative outputs and targets, eps > 0 and class weighting off,
\* every per-class ratio is in (0, 1] and the loss returned in [-1, 1); the
\* ratio of a class that is all zero in output and target is exactly 1 (a
\* loss of -1 when all classes are); and outputs equal to targets that are
\* not all zero give a loss strictly below 0.
C8_LossRange ==
    \A d \in Ranks :
        ( /\ Done(d) /\ Positive(eps) /\ ~WeightingOn
          /\ \A e \in Ranks : NonNegative(local[e].output) /\ NonNegative(local[e].target) )
        =>
        LET r    == Ratios(local[d].intersection, local[d].output_sum_square,
                           local[d].target_sum_square, eps)
            loss == local[d].synced.data
            zero(c) == \A e \in Ranks : ZeroClass(local[e].output, c)
                                        /\ ZeroClass(local[e].target, c)
        IN  /\ Len(r) = ShapeOK[2]
            /\ \A c \in 1..Len(r) : Positive(r[c]) /\ RLe(r[c], Q(1))
            /\ RLe(Q(-1), loss) /\ RLt(loss, Q(1))
            /\ \A c \in 1..Len(r) : zero(c) => r[c] = Q(1)
            /\ (\A c \in 1..Len(r) : zero(c)) => loss = Q(-1)
            /\ ( /\ \A e \in Ranks : local[e].output = local[e].target
                 /\ \E c \in 1..Len(r) : ~zero(c) )
               => RLt(loss, Q(0))

\* Two ranks have returned for outputs equal to their targets, one class
\* empty everywhere and the other not: a loss below 0 and above -1.
C8_Witness ==
    /\ world > 1 /\ Positive(eps) /\ ~WeightingOn
    /\ \A d \in Ranks : Done(d) /\ local[d].output = local[d].target
    /\ \E d \in Ranks : ~ZeroClass(local[d].target, 1)
    /\ \A d \in Ranks : ZeroClass(local[d].target, 2)
    /\ RLt(local[1].synced.data, Q(0)) /\ RLt(Q(-1), local[1].synced.data)

\* C7: when the script reaches its end the full fit has run, as the last
\* fit: after one fast_dev_run fit under --debug (two fits), alone without
\* --debug (one fit).
C7_FullFitAlways ==
    mpc = "end" =>
        fits = (IF args.debug THEN <<TRUE, FALSE>> ELSE <<FALSE>>)

\* The script has ended under --debug after both fits.
C7_Witness == mpc = "end" /\ args.debug /\ Len(fits) = 2

=============================================================================
